---- MODULE Spec2Model ----
(***************************************************************************)
(* Object-version resolution layer of sui-indexer-alt-jsonrpc              *)
(* (crates/sui-indexer-alt-jsonrpc/src/data/objects.rs).                   *)
(*                                                                         *)
(* The specifications of the module:                                       *)
(*   - SpecLoaders: PgReader::load and BigtableReader::load, the batch     *)
(*     loaders of the metadata store and of the content store;             *)
(*   - SpecConc: two overlapping PgReader::load calls;                     *)
(*   - SpecCast: PgReader::load over the whole range of versions;          *)
(*   - SpecResolve: load_latest / load_live, the single-key resolvers;     *)
(*   - SpecPar: two resolver chains on different ids;                      *)
(*   - SpecDecode: load_latest_deserialized, the typed decoder.            *)
(***************************************************************************)
EXTENDS Integers, Sequences, FiniteSets, TLC

\* ------------------------------------------------------------------ bounds
\* Width of the version integers (u64 / i64 in the source, scaled down).
Width == 4
\* Longest key slice handed to a batch loader.
MaxKeys == 3
\* Most rows held by kv_objects in an initial state.
MaxRows == 3
\* Most objects held by the content store in an initial state.
MaxObjects == 2
\* Most keys per call, and most rows stored, when two batch calls overlap.
MaxConc == 1

\* ------------------------------------------------------------- data model
Pow2(n) == 2 ^ n

\* ObjectID: a fixed-size byte array (32 bytes in the source, 2 here).
Ids == { <<0, 1>>, <<0, 2>> }

\* u64 versions used as inputs: the two smallest and the largest.
Versions == { 0, 1, Pow2(Width) - 1 }

\* Mutation: a version that does not fit is clamped to the largest i64.
AsI64_Saturating(v) == IF v >= Pow2(Width - 1) THEN Pow2(Width - 1) - 1 ELSE v

\* `version as i64`: two's complement reinterpretation of a u64.
AsI64(v) == IF v >= Pow2(Width - 1) THEN v - Pow2(Width) ELSE v

\* `object_version as u64`: reinterpretation of an i64.
AsU64(s) == IF s < 0 THEN s + Pow2(Width) ELSE s

\* ObjectID::into_bytes / AsRef<[u8]>: the bytes of the id, in order.
IntoBytes(id) == [i \in 1..Len(id) |-> id[i]]

\* VersionedObjectKey(pub ObjectID, pub u64)
VersionedObjectKey(id, version) == <<id, version>>

AllKeys == { VersionedObjectKey(id, v) : id \in Ids, v \in Versions }

\* StoredObject: a row of kv_objects.
StoredObject(id, sv) ==
    [object_id |-> IntoBytes(id), object_version |-> sv,
     serialized_object |-> <<"bcs", id, sv>>]

AllRows == { StoredObject(id, AsI64(v)) : id \in Ids, v \in Versions }

Range(s) == { s[i] : i \in 1..Len(s) }

\* All sequences over S of length at most n.
SeqsUpTo(S, n) == UNION { [1..m -> S] : m \in 0..n }

\* All orders in which a finite set can be returned.
RECURSIVE Orderings(_)
Orderings(S) ==
    IF S = {} THEN { <<>> }
    ELSE UNION { { <<x>> \o s : s \in Orderings(S \ {x}) } : x \in S }

Ok(m) == [kind |-> "ok", map |-> m, err |-> "none"]
Err(e) == [kind |-> "err", map |-> <<>>, err |-> e]
NoResult == [kind |-> "none", map |-> <<>>, err |-> "none"]

\* ------------------------------------------------------------------ state
VARIABLES
    kv_objects,     \* metadata store: set of StoredObject rows
    pg,             \* PgReader::load calls, one record per concurrent call
    bigtable,       \* content store: set of Objects
    bt,             \* the BigtableReader::load call
    obj_versions,   \* latest-version table: id -> Option<row>
    obj_info,       \* latest-info table: id -> Option<row>
    task,           \* load_latest / load_live calls, one record per task
    prev            \* what the last load_latest that returned had seen

vars == <<kv_objects, pg, bigtable, bt, obj_versions, obj_info, task, prev>>

\* Concurrent PgReader::load calls.
Calls == {1, 2}

PgIdle ==
    [pc |-> "idle", keys |-> <<>>, conn |-> FALSE, connects |-> 0,
     queries |-> 0, failed |-> "none", filter |-> {}, objects |-> <<>>,
     result |-> NoResult]

\* ------------------------------------------------- PgReader::load helpers
\* The boxed query after the or_filter loop: the set of (bytes, i64) pairs.
OrFilter(keys) ==
    { <<IntoBytes(keys[i][1]), AsI64(keys[i][2])>> : i \in 1..Len(keys) }

\* conn.results(query): the rows of the table selected by the query.
Matching(filter, table) ==
    { row \in table : <<row.object_id, row.object_version>> \in filter }

\* Mutation: the index key keeps the signed version (the `as u64` is lost).
StoredKey_NoCast(stored) == <<stored.object_id, stored.object_version>>

\* The index key of a returned row: (id bytes, object_version as u64).
StoredKey(stored) == <<stored.object_id, AsU64(stored.object_version)>>

\* key_to_stored: index key -> row, later rows overwrite earlier ones.
KeyToStored(objects) ==
    [k \in { StoredKey(objects[i]) : i \in 1..Len(objects) } |->
        LET last == CHOOSE i \in 1..Len(objects) :
                      /\ StoredKey(objects[i]) = k
                      /\ \A j \in 1..Len(objects) :
                            StoredKey(objects[j]) = k => j <= i
        IN objects[last]]

\* keys.iter().filter_map(..).collect(): the requested keys found in the index.
ProjectKeys(keys, key_to_stored) ==
    [key \in { k \in Range(keys) :
                 <<IntoBytes(k[1]), k[2]>> \in DOMAIN key_to_stored } |->
        key_to_stored[<<IntoBytes(key[1]), key[2]>>]]

\* ------------------------------------------------- PgReader::load actions
PgFrame == UNCHANGED <<kv_objects, bigtable, bt, obj_versions, obj_info, task, prev>>

PgCall(c, keys) ==
    /\ pg[c].pc = "idle"
    /\ pg' = [pg EXCEPT ![c] = [PgIdle EXCEPT !.pc = "entered", !.keys = keys,
                                              !.conn = pg[c].conn]]
    /\ PgFrame

\* Mutation: the connection is acquired before the empty check.
PgEmpty_ConnectsFirst(c) ==
    /\ pg[c].pc = "entered"
    /\ pg[c].keys = <<>>
    /\ pg' = [pg EXCEPT ![c].pc = "done", ![c].connects = @ + 1,
                        ![c].result = Ok(<<>>)]
    /\ PgFrame

PgEmpty(c) ==
    /\ pg[c].pc = "entered"
    /\ pg[c].keys = <<>>
    /\ pg' = [pg EXCEPT ![c].pc = "done", ![c].result = Ok(<<>>)]
    /\ PgFrame

\* Mutation: the calls share one connection and wait for it.
PgConnect_SharedConnection(c) ==
    /\ pg[c].pc = "entered"
    /\ pg[c].keys # <<>>
    /\ \A d \in Calls \ {c} : ~pg[d].conn
    /\ \/ pg' = [pg EXCEPT ![c].pc = "connected", ![c].conn = TRUE,
                           ![c].connects = @ + 1]
       \/ pg' = [pg EXCEPT ![c].pc = "done", ![c].connects = @ + 1,
                           ![c].failed = "connect",
                           ![c].result = Err("connect")]
    /\ PgFrame

PgConnect(c) ==
    /\ pg[c].pc = "entered"
    /\ pg[c].keys # <<>>
    /\ \/ pg' = [pg EXCEPT ![c].pc = "connected", ![c].conn = TRUE,
                           ![c].connects = @ + 1]
       \/ pg' = [pg EXCEPT ![c].pc = "done", ![c].connects = @ + 1,
                           ![c].failed = "connect",
                           ![c].result = Err("connect")]
    /\ PgFrame

\* Mutation: one query per key instead of one query for the batch.
PgQuery_PerKey(c) ==
    /\ pg[c].pc = "connected"
    /\ LET filter == OrFilter(pg[c].keys) IN
       \/ \E objects \in Orderings(Matching(filter, kv_objects)) :
            pg' = [pg EXCEPT ![c].pc = "loaded", ![c].queries = @ + Len(pg[c].keys),
                             ![c].filter = filter, ![c].objects = objects]
       \/ pg' = [pg EXCEPT ![c].pc = "done", ![c].queries = @ + 1,
                           ![c].filter = filter, ![c].conn = FALSE,
                           ![c].failed = "query",
                           ![c].result = Err("query")]
    /\ PgFrame

\* Mutation: a failed query is turned into an empty mapping.
PgQuery_SwallowsFailure(c) ==
    /\ pg[c].pc = "connected"
    /\ LET filter == OrFilter(pg[c].keys) IN
       \/ \E objects \in Orderings(Matching(filter, kv_objects)) :
            pg' = [pg EXCEPT ![c].pc = "loaded", ![c].queries = @ + 1,
                             ![c].filter = filter, ![c].objects = objects]
       \/ pg' = [pg EXCEPT ![c].pc = "done", ![c].queries = @ + 1,
                           ![c].filter = filter, ![c].conn = FALSE,
                           ![c].failed = "query",
                           ![c].result = Ok(<<>>)]
    /\ PgFrame

PgQuery(c) ==
    /\ pg[c].pc = "connected"
    /\ LET filter == OrFilter(pg[c].keys) IN
       \/ \E objects \in Orderings(Matching(filter, kv_objects)) :
            pg' = [pg EXCEPT ![c].pc = "loaded", ![c].queries = @ + 1,
                             ![c].filter = filter, ![c].objects = objects]
       \/ pg' = [pg EXCEPT ![c].pc = "done", ![c].queries = @ + 1,
                           ![c].filter = filter, ![c].conn = FALSE,
                           ![c].failed = "query",
                           ![c].result = Err("query")]
    /\ PgFrame

\* Mutation: the connection outlives the call on the success path.
PgProject_KeepsConnection(c) ==
    /\ pg[c].pc = "loaded"
    /\ pg' = [pg EXCEPT ![c].pc = "done",
                        ![c].result =
                            Ok(ProjectKeys(pg[c].keys, KeyToStored(pg[c].objects)))]
    /\ PgFrame

PgProject(c) ==
    /\ pg[c].pc = "loaded"
    /\ pg' = [pg EXCEPT ![c].pc = "done", ![c].conn = FALSE,
                        ![c].result =
                            Ok(ProjectKeys(pg[c].keys, KeyToStored(pg[c].objects)))]
    /\ PgFrame

PgReturn(c) ==
    /\ pg[c].pc = "done"
    /\ pg' = [pg EXCEPT ![c] = [PgIdle EXCEPT !.conn = pg[c].conn]]
    /\ PgFrame

\* ------------------------------------------- BigtableReader::load helpers
\* SequenceNumber::from(u64) and u64::from(SequenceNumber).
SequenceNumber(v) == [value |-> v]
SeqValue(n) == n.value

\* ObjectKey(pub ObjectID, pub SequenceNumber)
ObjectKey(id, n) == <<id, n>>

\* Data::Move(MoveObject) with its BCS contents, and Data::Package.
MoveData(contents) == [kind |-> "move", contents |-> contents]
PackageData(modules) == [kind |-> "package", contents |-> modules]

\* Object: the decoded object, carrying its own id and version.
ObjectWith(id, v, data) == [id |-> id, version |-> SequenceNumber(v), data |-> data]

Object(id, v) == ObjectWith(id, v, MoveData(<<7, 1>>))

AllObjects == { Object(id, v) : id \in Ids, v \in Versions }

\* keys.iter().map(|key| ObjectKey(key.0, key.1.into())).collect()
ObjectKeys(keys) ==
    [i \in 1..Len(keys) |-> ObjectKey(keys[i][1], SequenceNumber(keys[i][2]))]

\* BigtableReader::objects: the stored objects at the requested keys.
Found(object_keys, table) ==
    { o \in table : ObjectKey(o.id, o.version) \in Range(object_keys) }

\* Mutation: the key carries the version reinterpreted as a signed integer.
CollectObjects_SignedVersion(objects) ==
    [key \in { VersionedObjectKey(objects[i].id, AsI64(SeqValue(objects[i].version))) :
                 i \in 1..Len(objects) } |->
        objects[CHOOSE i \in 1..Len(objects) :
                  VersionedObjectKey(objects[i].id,
                                     AsI64(SeqValue(objects[i].version))) = key]]

\* .into_iter().map(|o| (VersionedObjectKey(o.id(), o.version().into()), o)).collect()
CollectObjects(objects) ==
    [key \in { VersionedObjectKey(objects[i].id, SeqValue(objects[i].version)) :
                 i \in 1..Len(objects) } |->
        LET last == CHOOSE i \in 1..Len(objects) :
                      /\ VersionedObjectKey(objects[i].id,
                                            SeqValue(objects[i].version)) = key
                      /\ \A j \in 1..Len(objects) :
                            VersionedObjectKey(objects[j].id,
                                               SeqValue(objects[j].version)) = key
                                => j <= i
        IN objects[last]]

BtIdle ==
    [pc |-> "idle", keys |-> <<>>, lookups |-> 0, failed |-> "none",
     object_keys |-> <<>>, objects |-> <<>>, result |-> NoResult]

\* ------------------------------------------- BigtableReader::load actions
BtFrame == UNCHANGED <<kv_objects, pg, bigtable, obj_versions, obj_info, task, prev>>

BtCall(keys) ==
    /\ bt.pc = "idle"
    /\ bt' = [BtIdle EXCEPT !.pc = "entered", !.keys = keys]
    /\ BtFrame

BtEmpty ==
    /\ bt.pc = "entered"
    /\ bt.keys = <<>>
    /\ bt' = [bt EXCEPT !.pc = "done", !.result = Ok(<<>>)]
    /\ BtFrame

BtLookup ==
    /\ bt.pc = "entered"
    /\ bt.keys # <<>>
    /\ bt' = [bt EXCEPT !.pc = "awaiting", !.lookups = @ + 1,
                        !.object_keys = ObjectKeys(bt.keys)]
    /\ BtFrame

BtFail ==
    /\ bt.pc = "awaiting"
    /\ bt' = [bt EXCEPT !.pc = "done", !.failed = "lookup",
                        !.result = Err("bigtable")]
    /\ BtFrame

\* Mutation: the i-th returned object is attached to the i-th requested key.
BtCollect_Positional ==
    /\ bt.pc = "awaiting"
    /\ \E objects \in Orderings(Found(bt.object_keys, bigtable)) :
         bt' = [bt EXCEPT !.pc = "done", !.objects = objects,
                          !.result = Ok([key \in { bt.keys[i] : i \in 1..Len(objects) } |->
                                           objects[CHOOSE i \in 1..Len(objects) :
                                                     bt.keys[i] = key]])]
    /\ BtFrame

BtCollect ==
    /\ bt.pc = "awaiting"
    /\ \E objects \in Orderings(Found(bt.object_keys, bigtable)) :
         bt' = [bt EXCEPT !.pc = "done", !.objects = objects,
                          !.result = Ok(CollectObjects(objects))]
    /\ BtFrame

BtReturn ==
    /\ bt.pc = "done"
    /\ bt' = BtIdle
    /\ BtFrame

\* ------------------------------------------------------ resolver helpers
\* Option<T>: None is the empty sequence, Some(x) the one-element sequence.
None == <<>>
Some(x) == <<x>>

ROk(opt) == [kind |-> "ok", val |-> opt, err |-> "none"]
RErr(e) == [kind |-> "err", val |-> None, err |-> e]

\* A row of the latest-version table (object_version is an i64).
StoredObjVersion(id, sv) == [object_id |-> IntoBytes(id), object_version |-> sv]

\* A row of the latest-info table; owner_kind is an Option.
StoredObjInfo(id, owner_kind) == [object_id |-> IntoBytes(id), owner_kind |-> owner_kind]

OwnerKinds == { None, Some("Address") }

\* pg_loader().load_one(LatestObjectVersionKey(id)) when the lookup succeeds.
LatestVersionRow(id) == obj_versions[id]

\* pg_loader().load_one(LatestObjectInfoKey(id)) when the lookup succeeds.
LatestInfoRow(id) == obj_info[id]

\* kv_loader().load_one_object(id, version) when the lookup succeeds.
LoadOneObject(id, version) ==
    LET hits == { o \in bigtable :
                    VersionedObjectKey(o.id, SeqValue(o.version))
                        = VersionedObjectKey(id, version) }
    IN IF hits = {} THEN None ELSE Some(CHOOSE o \in hits : TRUE)

Tasks == {1, 2}

TaskIdle ==
    [pc |-> "idle", op |-> "none", object_id |-> <<>>, latest_version |-> None,
     obj_info |-> None, latest |-> ROk(None), result |-> NoResult, log |-> <<>>]

NoPrev ==
    [set |-> FALSE, object_id |-> <<>>, version |-> None, result |-> NoResult,
     info |-> None]

\* load_latest hands r to its caller: load_live and load_latest_deserialized
\* resume, a direct call is done.
ReturnLatest(rec, r) ==
    IF rec.op = "load_live"
    THEN [rec EXCEPT !.pc = "live_resume", !.latest = r]
    ELSE IF rec.op = "load_latest_deserialized"
    THEN [rec EXCEPT !.pc = "deser_resume", !.latest = r]
    ELSE [rec EXCEPT !.pc = "done", !.result = r]

\* ------------------------------------------------------- load_latest
TaskFrame == UNCHANGED <<kv_objects, pg, bigtable, bt, obj_versions, obj_info, prev>>

LatestCall(t, id) ==
    /\ task[t].pc = "idle"
    /\ task' = [task EXCEPT ![t] = [TaskIdle EXCEPT !.pc = "latest_entered",
                                       !.op = "load_latest", !.object_id = id]]
    /\ TaskFrame

\* Mutation: a version lookup is issued only when no other task is waiting.
VersionIssue_WaitsForOthers(t) ==
    /\ task[t].pc = "latest_entered"
    /\ \A u \in Tasks \ {t} :
          task[u].pc \notin {"info_wait", "version_wait", "content_wait"}
    /\ task' = [task EXCEPT ![t].pc = "version_wait",
                            ![t].log = Append(@, "version_issue")]
    /\ TaskFrame

VersionIssue(t) ==
    /\ task[t].pc = "latest_entered"
    /\ task' = [task EXCEPT ![t].pc = "version_wait",
                            ![t].log = Append(@, "version_issue")]
    /\ TaskFrame

VersionFail(t) ==
    /\ task[t].pc = "version_wait"
    /\ task' = [task EXCEPT ![t] =
                  ReturnLatest([task[t] EXCEPT !.log = Append(@, "version_fail")],
                               RErr("Failed to load latest version"))]
    /\ TaskFrame

\* Mutation: a resolved version is returned from without fetching content.
VersionDone_SkipsContent(t) ==
    /\ task[t].pc = "version_wait"
    /\ LET row == LatestVersionRow(task[t].object_id)
           rec == [task[t] EXCEPT !.log = Append(@, "version_done"),
                                  !.latest_version = row]
       IN task' = [task EXCEPT ![t] = ReturnLatest(rec, ROk(None))]
    /\ TaskFrame

\* Mutation: load_latest treats an object without an owner as not found.
VersionDone_HonoursInfo(t) ==
    /\ task[t].pc = "version_wait"
    /\ LET row == LatestVersionRow(task[t].object_id)
           info == LatestInfoRow(task[t].object_id)
           rec == [task[t] EXCEPT !.log = Append(@, "version_done")]
       IN task' = [task EXCEPT ![t] =
                     IF row = None \/ (info # None /\ info[1].owner_kind = None)
                     THEN ReturnLatest(rec, ROk(None))
                     ELSE [rec EXCEPT !.pc = "version_known",
                                      !.latest_version = row]]
    /\ TaskFrame

VersionDone(t) ==
    /\ task[t].pc = "version_wait"
    /\ LET row == LatestVersionRow(task[t].object_id)
           rec == [task[t] EXCEPT !.log = Append(@, "version_done")]
       IN task' = [task EXCEPT ![t] =
                     IF row = None
                     THEN ReturnLatest(rec, ROk(None))
                     ELSE [rec EXCEPT !.pc = "version_known",
                                      !.latest_version = row]]
    /\ TaskFrame

ContentIssue(t) ==
    /\ task[t].pc = "version_known"
    /\ task' = [task EXCEPT ![t].pc = "content_wait",
                            ![t].log = Append(@, "content_issue")]
    /\ TaskFrame

\* Mutation: a failed content lookup is reported as not found.
ContentFail_Swallowed(t) ==
    /\ task[t].pc = "content_wait"
    /\ task' = [task EXCEPT ![t] =
                  ReturnLatest([task[t] EXCEPT !.log = Append(@, "content_fail")],
                               ROk(None))]
    /\ TaskFrame

ContentFail(t) ==
    /\ task[t].pc = "content_wait"
    /\ task' = [task EXCEPT ![t] =
                  ReturnLatest([task[t] EXCEPT !.log = Append(@, "content_fail")],
                               RErr("Failed to load latest object"))]
    /\ TaskFrame

\* Mutation: the stored i64 version is used without the cast to u64.
ContentDone_NoCast(t) ==
    /\ task[t].pc = "content_wait"
    /\ LET object == LoadOneObject(task[t].object_id,
                                   task[t].latest_version[1].object_version)
       IN task' = [task EXCEPT ![t] =
                     ReturnLatest([task[t] EXCEPT !.log = Append(@, "content_done")],
                                  ROk(object))]
    /\ TaskFrame

\* Mutation: content of an id without an info record is reported as absent.
ContentDone_ConsultsInfo(t) ==
    /\ task[t].pc = "content_wait"
    /\ LET object == LoadOneObject(task[t].object_id,
                                   AsU64(task[t].latest_version[1].object_version))
       IN task' = [task EXCEPT ![t] =
                     ReturnLatest([task[t] EXCEPT !.log = Append(@, "content_done")],
                                  IF LatestInfoRow(task[t].object_id) = None
                                  THEN ROk(None) ELSE ROk(object))]
    /\ TaskFrame

ContentDone(t) ==
    /\ task[t].pc = "content_wait"
    /\ LET object == LoadOneObject(task[t].object_id,
                                   AsU64(task[t].latest_version[1].object_version))
       IN task' = [task EXCEPT ![t] =
                     ReturnLatest([task[t] EXCEPT !.log = Append(@, "content_done")],
                                  ROk(object))]
    /\ TaskFrame

\* --------------------------------------------------------- load_live
LiveCall(t, id) ==
    /\ task[t].pc = "idle"
    /\ task' = [task EXCEPT ![t] = [TaskIdle EXCEPT !.pc = "live_entered",
                                       !.op = "load_live", !.object_id = id]]
    /\ TaskFrame

InfoIssue(t) ==
    /\ task[t].pc = "live_entered"
    /\ task' = [task EXCEPT ![t].pc = "info_wait",
                            ![t].log = Append(@, "info_issue")]
    /\ TaskFrame

InfoFail(t) ==
    /\ task[t].pc = "info_wait"
    /\ task' = [task EXCEPT ![t].pc = "done",
                            ![t].log = Append(@, "info_fail"),
                            ![t].result = RErr("Failed to fetch object info")]
    /\ TaskFrame

\* Mutation: a missing info record does not end the call.
InfoDone_NoShortCircuit(t) ==
    /\ task[t].pc = "info_wait"
    /\ LET row == LatestInfoRow(task[t].object_id)
           rec == [task[t] EXCEPT !.log = Append(@, "info_done")]
       IN task' = [task EXCEPT ![t] =
                     IF row = None
                     THEN [rec EXCEPT !.pc = "latest_entered"]
                     ELSE [rec EXCEPT !.pc = "info_known", !.obj_info = row]]
    /\ TaskFrame

InfoDone(t) ==
    /\ task[t].pc = "info_wait"
    /\ LET row == LatestInfoRow(task[t].object_id)
           rec == [task[t] EXCEPT !.log = Append(@, "info_done")]
       IN task' = [task EXCEPT ![t] =
                     IF row = None
                     THEN [rec EXCEPT !.pc = "done", !.result = ROk(None)]
                     ELSE [rec EXCEPT !.pc = "info_known", !.obj_info = row]]
    /\ TaskFrame

\* Mutation: the owner indicator is not looked at.
OwnerCheck_IgnoresOwner(t) ==
    /\ task[t].pc = "info_known"
    /\ task' = [task EXCEPT ![t].pc = "latest_entered"]
    /\ TaskFrame

OwnerCheck(t) ==
    /\ task[t].pc = "info_known"
    /\ task' = [task EXCEPT ![t] =
                  IF task[t].obj_info[1].owner_kind = None
                  THEN [@ EXCEPT !.pc = "done", !.result = ROk(None)]
                  ELSE [@ EXCEPT !.pc = "latest_entered"]]
    /\ TaskFrame

\* Mutation: missing content of a live object is reported as not found.
LiveResume_NotFound(t) ==
    /\ task[t].pc = "live_resume"
    /\ task' = [task EXCEPT ![t].pc = "done", ![t].result = task[t].latest]
    /\ TaskFrame

LiveResume(t) ==
    /\ task[t].pc = "live_resume"
    /\ LET r == task[t].latest IN
       task' = [task EXCEPT ![t].pc = "done",
                  ![t].result =
                     IF r.kind = "err" THEN r
                     ELSE IF r.val = None
                     THEN RErr("Failed to find content for latest version of live object")
                     ELSE ROk(Some(r.val[1]))]
    /\ TaskFrame

\* ------------------------------------------- load_latest_deserialized
\* Data::try_as_move: the Move object, or None for a package.
TryAsMove(data) == IF data.kind = "move" THEN Some(data) ELSE None

\* bcs::from_bytes::<T> for T = struct { value: u8, flag: bool }: one byte,
\* then a byte that must be 0 or 1, and no byte left over.
BcsFromBytes(bytes) ==
    IF Len(bytes) = 2 /\ bytes[2] \in {0, 1}
    THEN Some([value |-> bytes[1], flag |-> (bytes[2] = 1)])
    ELSE None

\* Mutation: the contents are decoded without asking whether it is a Move object.
Deserialize_NoKindCheck(object) ==
    LET value == BcsFromBytes(object.data.contents)
    IN IF value = None
       THEN [result |-> RErr("Failed to deserialize Move value"), steps |-> <<"decode">>]
       ELSE [result |-> ROk(value), steps |-> <<"decode">>]

\* Lines 137-138 on a found object: the result and the steps taken.
Deserialize(object) ==
    LET move_object == TryAsMove(object.data) IN
    IF move_object = None
    THEN [result |-> RErr("Not a Move object"), steps |-> <<"try_as_move">>]
    ELSE LET value == BcsFromBytes(move_object[1].contents)
         IN IF value = None
            THEN [result |-> RErr("Failed to deserialize Move value"),
                  steps |-> <<"try_as_move", "decode">>]
            ELSE [result |-> ROk(value), steps |-> <<"try_as_move", "decode">>]

DeserCall(t, id) ==
    /\ task[t].pc = "idle"
    /\ task' = [task EXCEPT ![t] = [TaskIdle EXCEPT !.pc = "latest_entered",
                                       !.op = "load_latest_deserialized",
                                       !.object_id = id]]
    /\ TaskFrame

\* Mutation: a missing object is handed back as an absent value.
DeserResume_AbsenceReturned(t) ==
    /\ task[t].pc = "deser_resume"
    /\ LET r == task[t].latest IN
       task' = [task EXCEPT ![t] =
                  IF r.kind = "err" \/ r.val = None
                  THEN [@ EXCEPT !.pc = "done", !.result = r]
                  ELSE LET d == Deserialize(r.val[1])
                       IN [@ EXCEPT !.pc = "done", !.result = d.result,
                                    !.log = @ \o d.steps]]
    /\ TaskFrame

DeserResume(t) ==
    /\ task[t].pc = "deser_resume"
    /\ LET r == task[t].latest IN
       task' = [task EXCEPT ![t] =
                  IF r.kind = "err"
                  THEN [@ EXCEPT !.pc = "done", !.result = r]
                  ELSE IF r.val = None
                  THEN [@ EXCEPT !.pc = "done", !.result = RErr("No data found")]
                  ELSE LET d == Deserialize(r.val[1])
                       IN [@ EXCEPT !.pc = "done", !.result = d.result,
                                    !.log = @ \o d.steps]]
    /\ TaskFrame

\* The caller takes the result; a load_latest that did not fail is remembered.
TaskReturn(t) ==
    /\ task[t].pc = "done"
    /\ task' = [task EXCEPT ![t] = TaskIdle]
    /\ prev' = IF task[t].op = "load_latest" /\ task[t].result.kind = "ok"
               THEN [set |-> TRUE, object_id |-> task[t].object_id,
                     version |-> task[t].latest_version,
                     result |-> task[t].result,
                     info |-> obj_info[task[t].object_id]]
               ELSE prev
    /\ UNCHANGED <<kv_objects, pg, bigtable, bt, obj_versions, obj_info>>

\* The indexer rewrites the info record of id (wrap, delete, transfer, prune)
\* between two calls.
SetInfo(id, row) ==
    /\ \A t \in Tasks : task[t].pc = "idle"
    /\ obj_info[id] # row
    /\ obj_info' = [obj_info EXCEPT ![id] = row]
    /\ UNCHANGED <<kv_objects, pg, bigtable, bt, obj_versions, task, prev>>

\* ----------------------------------------------------- specifications
InfoRows(id) == { None } \cup { Some(StoredObjInfo(id, k)) : k \in OwnerKinds }
VersionRows(id) ==
    { None } \cup { Some(StoredObjVersion(id, AsI64(v))) : v \in Versions }

Quiet ==
    /\ pg = [c \in Calls |-> PgIdle]
    /\ bt = BtIdle
    /\ task = [t \in Tasks |-> TaskIdle]
    /\ prev = NoPrev

\* The store as the indexer fills it: the content store holds the object of
\* every row of kv_objects.
ObjectOfRow(row) ==
    LET id == CHOOSE i \in Ids : IntoBytes(i) = row.object_id
    IN Object(id, AsU64(row.object_version))

\* One batch call at a time, on either loader, over every small store.
InitLoaders ==
    /\ Quiet
    /\ kv_objects \in { t \in SUBSET AllRows : Cardinality(t) <= MaxRows }
    /\ bigtable = { ObjectOfRow(row) : row \in kv_objects }
    /\ obj_versions = [id \in Ids |-> None]
    /\ obj_info = [id \in Ids |-> None]

NextLoaders ==
    \/ /\ pg[1].pc = "idle" /\ bt.pc = "idle"
       /\ \E keys \in SeqsUpTo(AllKeys, MaxKeys) : PgCall(1, keys)
    \/ PgEmpty(1)
    \/ PgConnect(1)
    \/ PgQuery(1)
    \/ PgProject(1)
    \/ PgReturn(1)
    \/ /\ pg[1].pc = "idle" /\ bt.pc = "idle"
       /\ \E keys \in SeqsUpTo(AllKeys, MaxKeys) : BtCall(keys)
    \/ BtEmpty
    \/ BtLookup
    \/ BtFail
    \/ BtCollect
    \/ BtReturn

SpecLoaders == InitLoaders /\ [][NextLoaders]_vars

\* PgReader::load over the whole range of versions: one id, every u64 version
\* in the keys, every i64 version in the store.
FullVersions == 0..(Pow2(Width) - 1)
SignedVersions == (0 - Pow2(Width - 1))..(Pow2(Width - 1) - 1)
CastId == <<0, 1>>
CastKeys == { VersionedObjectKey(CastId, v) : v \in FullVersions }
CastRows == { StoredObject(CastId, sv) : sv \in SignedVersions }

InitCast ==
    /\ Quiet
    /\ kv_objects \in { {} } \cup { { row } : row \in CastRows }
    /\ bigtable = {}
    /\ obj_versions = [id \in Ids |-> None]
    /\ obj_info = [id \in Ids |-> None]

NextCast ==
    \/ /\ pg[1].pc = "idle"
       /\ \E keys \in SeqsUpTo(CastKeys, 2) : PgCall(1, keys)
    \/ PgEmpty(1)
    \/ PgConnect(1)
    \/ PgQuery(1)
    \/ PgProject(1)
    \/ PgReturn(1)

SpecCast == InitCast /\ [][NextCast]_vars

\* Two PgReader::load calls overlapping in every interleaving of their steps.
InitConc ==
    /\ Quiet
    /\ kv_objects \in { t \in SUBSET AllRows : Cardinality(t) <= MaxConc }
    /\ bigtable = {}
    /\ obj_versions = [id \in Ids |-> None]
    /\ obj_info = [id \in Ids |-> None]

NextConc ==
    \E c \in Calls :
        \/ /\ pg[c].pc = "idle"
           /\ \E keys \in SeqsUpTo(AllKeys, MaxConc) : PgCall(c, keys)
        \/ PgEmpty(c)
        \/ PgConnect(c)
        \/ PgQuery(c)
        \/ PgProject(c)
        \/ PgReturn(c)

SpecConc == InitConc /\ [][NextConc]_vars

\* load_latest and load_live, one call at a time, over every small store.
InitResolve ==
    /\ Quiet
    /\ kv_objects = {}
    /\ bigtable \in { t \in SUBSET AllObjects : Cardinality(t) <= MaxObjects }
    /\ obj_versions \in { f \in [Ids -> UNION { VersionRows(id) : id \in Ids }] :
                            \A id \in Ids : f[id] \in VersionRows(id) }
    /\ obj_info = [id \in Ids |-> None]

NextResolve ==
    \/ \E id \in Ids : LatestCall(1, id)
    \/ VersionIssue(1)
    \/ VersionFail(1)
    \/ VersionDone(1)
    \/ ContentIssue(1)
    \/ ContentFail(1)
    \/ ContentDone(1)
    \/ \E id \in Ids : LiveCall(1, id)
    \/ InfoIssue(1)
    \/ InfoFail(1)
    \/ InfoDone(1)
    \/ OwnerCheck(1)
    \/ LiveResume(1)
    \/ TaskReturn(1)
    \/ \E id \in Ids : \E row \in InfoRows(id) : SetInfo(id, row)

SpecResolve == InitResolve /\ [][NextResolve]_vars

\* Two resolver chains, task t on the id <<0, t>>, in every interleaving.
ChainId(t) == <<0, t>>

InitPar ==
    /\ Quiet
    /\ kv_objects = {}
    /\ bigtable \in { s \in SUBSET AllObjects : Cardinality(s) <= MaxConc }
    /\ obj_versions \in { f \in [Ids -> UNION { VersionRows(id) : id \in Ids }] :
                            \A id \in Ids : f[id] \in VersionRows(id) }
    /\ obj_info \in { f \in [Ids -> UNION { InfoRows(id) : id \in Ids }] :
                        \A id \in Ids : f[id] \in InfoRows(id) }

NextPar ==
    \E t \in Tasks :
        \/ LatestCall(t, ChainId(t))
        \/ LiveCall(t, ChainId(t))
        \/ VersionIssue(t)
        \/ VersionFail(t)
        \/ VersionDone(t)
        \/ ContentIssue(t)
        \/ ContentFail(t)
        \/ ContentDone(t)
        \/ InfoIssue(t)
        \/ InfoFail(t)
        \/ InfoDone(t)
        \/ OwnerCheck(t)
        \/ LiveResume(t)

SpecPar == InitPar /\ [][NextPar]_vars

\* Payloads of the stored objects: a Move object that decodes, one whose flag
\* byte is not a bool, one that is too short, and a package.
Payloads == { MoveData(<<7, 1>>), MoveData(<<7, 2>>), MoveData(<<7>>),
              PackageData(<<7, 1>>) }

\* Content stores of up to n objects, at most one object per (id, version).
StoresOf(n) ==
    UNION { { { ObjectWith(k[1], k[2], f[k]) : k \in ks } : f \in [ks -> Payloads] } :
              ks \in { s \in SUBSET AllKeys : Cardinality(s) <= n } }

\* load_latest_deserialized, one call at a time, over every small store and
\* every payload.
InitDecode ==
    /\ Quiet
    /\ kv_objects = {}
    /\ bigtable \in StoresOf(MaxObjects)
    /\ obj_versions \in { f \in [Ids -> UNION { VersionRows(id) : id \in Ids }] :
                            \A id \in Ids : f[id] \in VersionRows(id) }
    /\ obj_info = [id \in Ids |-> None]

NextDecode ==
    \/ \E id \in Ids : DeserCall(1, id)
    \/ VersionIssue(1)
    \/ VersionFail(1)
    \/ VersionDone(1)
    \/ ContentIssue(1)
    \/ ContentFail(1)
    \/ ContentDone(1)
    \/ DeserResume(1)
    \/ TaskReturn(1)

SpecDecode == InitDecode /\ [][NextDecode]_vars

\* ------------------------------------------------ batch loader properties
\* The store holds a row with the id bytes and the version of key.
RowsFor(key) ==
    { row \in kv_objects :
        /\ row.object_id = IntoBytes(key[1])
        /\ row.object_version = AsI64(key[2]) }

\* C1: when PgReader::load returns without a connection or query failure it
\* returns a mapping whose keys are exactly the requested keys that have a row
\* with the same id bytes and version in kv_objects, each mapped to that row;
\* the other requested keys are omitted.
C1_PgLoadExactMatches ==
    pg[1].pc = "done" /\ pg[1].failed = "none" =>
        /\ pg[1].result.kind = "ok"
        /\ DOMAIN pg[1].result.map =
              { key \in Range(pg[1].keys) : RowsFor(key) # {} }
        /\ \A key \in DOMAIN pg[1].result.map :
              pg[1].result.map[key] \in RowsFor(key)

\* A batch of three keys, two sharing an id at different versions and both
\* stored, the third with an id the store does not hold: two entries.
C1_Witness ==
    /\ pg[1].pc = "done"
    /\ pg[1].result.kind = "ok"
    /\ Len(pg[1].keys) = 3
    /\ \E i, j, k \in 1..3 :
         /\ pg[1].keys[i][1] = pg[1].keys[j][1]
         /\ pg[1].keys[i][2] # pg[1].keys[j][2]
         /\ pg[1].keys[i][2] >= Pow2(Width - 1)
         /\ pg[1].keys[k][1] # pg[1].keys[i][1]
         /\ \A row \in kv_objects : row.object_id # IntoBytes(pg[1].keys[k][1])
         /\ DOMAIN pg[1].result.map = { pg[1].keys[i], pg[1].keys[j] }

\* C7: for an empty key slice both loaders return the empty mapping and touch
\* no backend: no connection attempt, no query, no batched lookup.
C7_EmptyTouchesNothing ==
    /\ pg[1].keys = <<>> /\ pg[1].pc \in {"entered", "done"} =>
          /\ pg[1].connects = 0
          /\ pg[1].queries = 0
          /\ ~pg[1].conn
          /\ pg[1].pc = "done" => pg[1].result = Ok(<<>>)
    /\ bt.keys = <<>> /\ bt.pc \in {"entered", "done"} =>
          /\ bt.lookups = 0
          /\ bt.pc = "done" => bt.result = Ok(<<>>)

C7_Witness ==
    /\ pg[1].pc = "done"
    /\ pg[1].keys = <<>>
    /\ pg[1].result = Ok(<<>>)
    /\ kv_objects # {}

\* C8 as stated: every finished call on a non-empty key slice has issued
\* exactly one query (PgReader) or one batched lookup (BigtableReader).
C8_ExactlyOneAlways ==
    /\ pg[1].pc = "done" /\ pg[1].keys # <<>> => pg[1].queries = 1
    /\ bt.pc = "done" /\ bt.keys # <<>> => bt.lookups = 1

\* C8 as amended: a call on a non-empty key slice never issues more than one
\* query or batched lookup whatever the number of keys; PgReader::load issues
\* exactly one once its connection is acquired and none when acquiring the
\* connection fails; BigtableReader::load issues exactly one.
C8_OneQueryOnceConnected ==
    /\ pg[1].queries <= 1
    /\ bt.lookups <= 1
    /\ pg[1].pc = "done" /\ pg[1].keys # <<>> =>
          pg[1].queries = (IF pg[1].failed = "connect" THEN 0 ELSE 1)
    /\ pg[1].pc = "loaded" => pg[1].queries = 1
    /\ bt.pc \in {"awaiting", "done"} /\ bt.keys # <<>> => bt.lookups = 1

C8_Witness ==
    /\ pg[1].pc = "done"
    /\ Len(pg[1].keys) = MaxKeys
    /\ Cardinality(Range(pg[1].keys)) = MaxKeys
    /\ Cardinality(DOMAIN pg[1].result.map) >= 2
    /\ pg[1].queries = 1

\* C9: a failed connection or a failed query makes the whole call return an
\* error and no mapping; after a failed connection no query is issued; the
\* failing step ends the call and neither step is ever issued twice.
C9_FailureFailsBatch ==
    /\ pg[1].failed # "none" =>
          /\ pg[1].pc = "done"
          /\ pg[1].result.kind = "err"
          /\ pg[1].result.map = <<>>
          /\ ~pg[1].conn
    /\ pg[1].failed = "connect" => pg[1].queries = 0 /\ pg[1].connects = 1
    /\ pg[1].failed = "query" => pg[1].queries = 1 /\ pg[1].connects = 1
    /\ pg[1].connects <= 1 /\ pg[1].queries <= 1
    /\ bt.failed # "none" =>
          /\ bt.pc = "done"
          /\ bt.result.kind = "err"
          /\ bt.result.map = <<>>
          /\ bt.lookups = 1

C9_Witness ==
    /\ pg[1].pc = "done"
    /\ pg[1].failed = "query"
    /\ pg[1].result.kind = "err"
    /\ Len(pg[1].keys) >= 2
    /\ Matching(pg[1].filter, kv_objects) # {}

\* C13: PgReader::load acquires at most one connection per call, only after
\* the empty check, and holds it only while the call runs: it is held between
\* the connect and the end of the projection and on no exit path (empty input,
\* failed connect, failed query, success), so none is held between calls.
C13_ConnectionScoped ==
    /\ pg[1].connects <= 1
    /\ pg[1].conn =>
          /\ pg[1].pc \in {"connected", "loaded"}
          /\ pg[1].keys # <<>>
          /\ pg[1].connects = 1
    /\ pg[1].pc \in {"connected", "loaded"} => pg[1].conn
    /\ pg[1].pc \in {"idle", "entered", "done"} => ~pg[1].conn

C13_Witness ==
    /\ pg[1].pc = "done"
    /\ pg[1].failed = "none"
    /\ Len(pg[1].keys) = 2
    /\ pg[1].objects # <<>>
    /\ pg[1].connects = 1
    /\ ~pg[1].conn

StoredAt(key) ==
    { o \in bigtable : o.id = key[1] /\ o.version = SequenceNumber(key[2]) }

\* C17: every entry of the mapping BigtableReader::load returns is keyed by
\* the id and version its object carries; the mapping is the same whatever the
\* order of the response (it is the stored object of each requested key that
\* has one), so objects never move to another requested key when requested
\* keys are missing from the response.
C17_BtKeyedByIdentity ==
    bt.pc = "done" /\ bt.result.kind = "ok" =>
        /\ \A key \in DOMAIN bt.result.map :
              key = <<bt.result.map[key].id, bt.result.map[key].version.value>>
        /\ DOMAIN bt.result.map = { key \in Range(bt.keys) : StoredAt(key) # {} }
        /\ \A key \in DOMAIN bt.result.map : bt.result.map[key] \in StoredAt(key)

\* The first requested key is missing from the response and the two objects
\* returned come in the reverse of the order they were asked for.
C17_Witness ==
    /\ bt.pc = "done"
    /\ bt.result.kind = "ok"
    /\ Len(bt.keys) = 3
    /\ Len(bt.objects) = 2
    /\ StoredAt(bt.keys[1]) = {}
    /\ bt.objects[1] \in StoredAt(bt.keys[3])
    /\ bt.objects[2] \in StoredAt(bt.keys[2])
    /\ bt.keys[2] # bt.keys[3]

\* The next step of call c, whichever it is.
PgStep(c) == PgEmpty(c) \/ PgConnect(c) \/ PgQuery(c) \/ PgProject(c)

\* C15: overlapping batch calls are isolated.  Whatever the other call is
\* doing or has failed at, a call in progress can always take its next step,
\* holds a connection of its own, and, when it does not fail itself, returns
\* the mapping the store gives for its own keys.
C15_BatchesIsolated ==
    \A c \in Calls :
        /\ pg[c].pc \in {"entered", "connected", "loaded"} => ENABLED PgStep(c)
        /\ pg[c].pc \in {"connected", "loaded"} => pg[c].conn
        /\ pg[c].pc = "done" /\ pg[c].failed = "none" =>
              /\ pg[c].result.kind = "ok"
              /\ DOMAIN pg[c].result.map =
                    { key \in Range(pg[c].keys) : RowsFor(key) # {} }
              /\ \A key \in DOMAIN pg[c].result.map :
                    pg[c].result.map[key] \in RowsFor(key)

\* One call's query has failed while the other, which asked for the same key,
\* has returned the row.
C15_Witness ==
    /\ pg[1].pc = "done"
    /\ pg[1].failed = "query"
    /\ pg[2].pc = "done"
    /\ pg[2].failed = "none"
    /\ pg[2].keys = pg[1].keys
    /\ DOMAIN pg[2].result.map = Range(pg[2].keys)
    /\ pg[2].keys # <<>>

\* The signed value with the same bits as the unsigned v.
SameBits(s, v) == s \in SignedVersions /\ (s = v \/ s = v - Pow2(Width))

\* C20: over the whole unsigned range, PgReader::load sends each requested
\* version as the signed integer with the same bits, matches a key (id, v) to
\* a row iff the row's signed version has the bits of v, and never matches two
\* distinct requested versions to the same row.
C20_VersionCastsConsistent ==
    /\ pg[1].pc \in {"loaded", "done"} /\ pg[1].queries = 1 =>
          /\ \A f \in pg[1].filter : f[2] \in SignedVersions
          /\ \A key \in Range(pg[1].keys) :
                \E f \in pg[1].filter :
                    f[1] = IntoBytes(key[1]) /\ SameBits(f[2], key[2])
          /\ \A f \in pg[1].filter :
                \E key \in Range(pg[1].keys) :
                    f[1] = IntoBytes(key[1]) /\ SameBits(f[2], key[2])
    /\ pg[1].pc = "done" /\ pg[1].failed = "none" =>
          /\ \A key \in Range(pg[1].keys) :
                key \in DOMAIN pg[1].result.map <=>
                    \E row \in kv_objects :
                        /\ row.object_id = IntoBytes(key[1])
                        /\ SameBits(row.object_version, key[2])
          /\ \A k1, k2 \in DOMAIN pg[1].result.map :
                k1[2] # k2[2] => pg[1].result.map[k1] # pg[1].result.map[k2]

\* A version above the signed range is matched to the row stored with a
\* negative version, and the other requested version is not.
C20_Witness ==
    /\ pg[1].pc = "done"
    /\ pg[1].failed = "none"
    /\ Len(pg[1].keys) = 2
    /\ \E row \in kv_objects : row.object_version < 0 - 1
    /\ Cardinality(DOMAIN pg[1].result.map) = 1
    /\ \A key \in DOMAIN pg[1].result.map : key[2] >= Pow2(Width - 1)
    /\ \E key \in Range(pg[1].keys) : key[2] < Pow2(Width - 1)

\* ---------------------------------------------------- resolver properties
\* The objects the content store holds for id at the version the
\* latest-version table names for id (none when there is no such row).
LatestContent(id) ==
    IF obj_versions[id] = None THEN {}
    ELSE { o \in bigtable :
             /\ o.id = id
             /\ AsI64(o.version.value) = obj_versions[id][1].object_version }

Failures == { "info_fail", "version_fail", "content_fail" }

NoFailure(t) == \A i \in 1..Len(task[t].log) : task[t].log[i] \notin Failures

Live(id) == obj_info[id] # None /\ obj_info[id][1].owner_kind # None

Positions(t, e) == { i \in 1..Len(task[t].log) : task[t].log[i] = e }

\* C2: a load_live whose info lookup does not fail returns not-found when the
\* info record is absent or has no owner, whatever the version table and the
\* content store hold; when the record has an owner, no lookup fails and the
\* latest version's content exists, it returns that content.
C2_LiveFollowsOwner ==
    task[1].pc = "done" /\ task[1].op = "load_live" =>
        /\ ~Live(task[1].object_id) /\ "info_fail" \notin Range(task[1].log)
              => task[1].result = ROk(None)
        /\ Live(task[1].object_id) /\ NoFailure(1)
                /\ LatestContent(task[1].object_id) # {}
              => /\ task[1].result.kind = "ok"
                 /\ task[1].result.val # None
                 /\ task[1].result.val[1] \in LatestContent(task[1].object_id)

\* X has two stored versions, the latest-version row points to one of them and
\* the owner has been removed: load_live(X) returned not-found.
C2_Witness ==
    /\ task[1].pc = "done"
    /\ task[1].op = "load_live"
    /\ task[1].result = ROk(None)
    /\ obj_info[task[1].object_id] # None
    /\ obj_info[task[1].object_id][1].owner_kind = None
    /\ LatestContent(task[1].object_id) # {}
    /\ Cardinality({ o \in bigtable : o.id = task[1].object_id }) = 2

\* C3: in load_latest a content lookup is issued only after the version
\* lookup has completed, and a call that resolved a version has issued the
\* content lookup by the time load_latest returns.
C3_VersionBeforeContent ==
    /\ \A i \in Positions(1, "content_issue") :
          \E j \in Positions(1, "version_done") : j < i
    /\ task[1].latest_version # None /\ task[1].pc \in {"live_resume", "done"}
          => Positions(1, "content_issue") # {}
    /\ task[1].pc \in {"content_wait"} => task[1].latest_version # None

C3_Witness ==
    /\ task[1].pc = "done"
    /\ task[1].op = "load_latest"
    /\ task[1].log = <<"version_issue", "version_done",
                       "content_issue", "content_done">>
    /\ task[1].result.val = None

\* C4: a load_latest in which no lookup fails returns Ok; it returns not-found
\* iff the latest-version row is absent or the content store holds nothing at
\* (id, that version), and otherwise the object stored at exactly that key;
\* when the row is absent no content lookup is issued.
C4_LatestOutcome ==
    task[1].pc = "done" /\ task[1].op = "load_latest" /\ NoFailure(1) =>
        /\ task[1].result.kind = "ok"
        /\ task[1].result.val = None <=> LatestContent(task[1].object_id) = {}
        /\ task[1].result.val # None =>
              task[1].result.val[1] \in LatestContent(task[1].object_id)
        /\ obj_versions[task[1].object_id] = None =>
              Positions(1, "content_issue") = {}

C4_Witness ==
    /\ task[1].pc = "done"
    /\ task[1].op = "load_latest"
    /\ task[1].result.kind = "ok"
    /\ task[1].result.val # None
    /\ task[1].result.val[1].version.value >= Pow2(Width - 1)
    /\ Cardinality({ o \in bigtable : o.id = task[1].object_id }) = 2

\* C5: load_latest does not depend on the info record.  The version table and
\* the content store never change here, the info record does: a load_latest
\* that does not fail returns what the previous one on the same id returned,
\* whatever the info record was then and is now; content that is present is
\* returned although the object has no owner.
C5_LatestIgnoresInfo ==
    task[1].pc = "done" /\ task[1].op = "load_latest"
            /\ task[1].result.kind = "ok" =>
        /\ prev.set /\ prev.object_id = task[1].object_id
              => task[1].result = prev.result
        /\ ~Live(task[1].object_id) /\ LatestContent(task[1].object_id) # {}
              => task[1].result.val # None

\* The previous load_latest(id) ran with an owner, this one without: both
\* returned the content.
C5_Witness ==
    /\ task[1].pc = "done"
    /\ task[1].op = "load_latest"
    /\ prev.set
    /\ prev.object_id = task[1].object_id
    /\ prev.info # None
    /\ prev.info[1].owner_kind # None
    /\ ~Live(task[1].object_id)
    /\ task[1].result.kind = "ok"
    /\ task[1].result.val # None
    /\ task[1].result = prev.result

\* C14: load_latest is idempotent.  The version table and the content store
\* never change here: a load_latest that does not fail resolves the version
\* and returns the result (the same object, or not-found) that the previous
\* load_latest that did not fail on the same id resolved and returned.
C14_LatestIdempotent ==
    task[1].pc = "done" /\ task[1].op = "load_latest"
            /\ task[1].result.kind = "ok"
            /\ prev.set /\ prev.object_id = task[1].object_id =>
        /\ task[1].latest_version = prev.version
        /\ task[1].result.kind = prev.result.kind
        /\ task[1].result.val = prev.result.val

\* Two calls in a row with nothing rewritten in between, both returning the
\* object at the highest version.
C14_Witness ==
    /\ task[1].pc = "done"
    /\ task[1].op = "load_latest"
    /\ prev.set
    /\ prev.object_id = task[1].object_id
    /\ prev.info = obj_info[task[1].object_id]
    /\ prev.version # None
    /\ prev.version[1].object_version < 0
    /\ prev.result.val # None
    /\ task[1].result = prev.result

\* The lookups task t has issued, in order.
RECURSIVE IssuedIn(_)
IssuedIn(log) ==
    IF log = <<>> THEN <<>>
    ELSE IF log[1] \in {"info_issue", "version_issue", "content_issue"}
    THEN <<log[1]>> \o IssuedIn(Tail(log))
    ELSE IssuedIn(Tail(log))

IsPrefix(a, b) == Len(a) <= Len(b) /\ \A i \in 1..Len(a) : a[i] = b[i]

\* The next step of task t, whichever it is.
TaskStep(t) ==
    \/ VersionIssue(t) \/ VersionFail(t) \/ VersionDone(t)
    \/ ContentIssue(t) \/ ContentFail(t) \/ ContentDone(t)
    \/ InfoIssue(t) \/ InfoFail(t) \/ InfoDone(t)
    \/ OwnerCheck(t) \/ LiveResume(t)

InFlight(t) == task[t].pc \notin {"idle", "done"}

\* Each lookup of task t is issued after the one before it has completed.
Sequential(t) ==
    \A i \in 2..Len(task[t].log) :
        task[t].log[i] \in {"info_issue", "version_issue", "content_issue"}
            => task[t].log[i - 1] \in {"info_done", "version_done"}

\* C18 as stated: each resolver has two sequential suspension points, one
\* metadata/info lookup followed by one content lookup, and the chains of
\* different ids do not wait on each other.
C18_TwoSuspensionPoints ==
    \A t \in Tasks :
        /\ Sequential(t)
        /\ Len(IssuedIn(task[t].log)) <= 2
        /\ InFlight(t) => ENABLED TaskStep(t)

\* C18 as amended: load_latest has two sequential suspension points (version
\* lookup, then content lookup); load_live has up to three (info lookup, then
\* the version lookup and the content lookup of load_latest); each lookup is
\* issued after the one before it has completed, and a chain in progress can
\* always take its next step whatever the chain of another id is doing.
C18_SequentialIndependentChains ==
    \A t \in Tasks :
        /\ Sequential(t)
        /\ task[t].op = "load_latest" =>
              IsPrefix(IssuedIn(task[t].log), <<"version_issue", "content_issue">>)
        /\ task[t].op = "load_live" =>
              IsPrefix(IssuedIn(task[t].log),
                       <<"info_issue", "version_issue", "content_issue">>)
        /\ InFlight(t) => ENABLED TaskStep(t)

\* load_live on one id is done after three lookups while load_latest on the
\* other id is still waiting for its version.
C18_Witness ==
    /\ task[1].pc = "done"
    /\ task[1].op = "load_live"
    /\ task[1].result.kind = "ok"
    /\ IssuedIn(task[1].log) = <<"info_issue", "version_issue", "content_issue">>
    /\ task[2].op = "load_latest"
    /\ task[2].pc = "version_wait"

\* C19: load_live short-circuits.  Once the info lookup has returned an absent
\* record or a record without owner, the call issues no version lookup and no
\* content lookup: the info lookup is its only backend interaction.  When
\* load_live does issue a version lookup, the info lookup has completed first.
C19_LiveShortCircuits ==
    task[1].op = "load_live" =>
        /\ ~Live(task[1].object_id) =>
              /\ IsPrefix(task[1].log, <<"info_issue", "info_done">>)
                    \/ task[1].log = <<"info_issue", "info_fail">>
              /\ task[1].pc \in {"live_entered", "info_wait", "info_known", "done"}
        /\ \A i \in Positions(1, "version_issue") :
              \E j \in Positions(1, "info_done") : j < i

\* The record is absent although the version row and the content exist.
C19_Witness ==
    /\ task[1].pc = "done"
    /\ task[1].op = "load_live"
    /\ obj_info[task[1].object_id] = None
    /\ LatestContent(task[1].object_id) # {}
    /\ task[1].log = <<"info_issue", "info_done">>
    /\ task[1].result = ROk(None)

ConsistencyFailure ==
    RErr("Failed to find content for latest version of live object")

\* C6: a load_live on an id whose info record has an owner, in which no lookup
\* fails and for which load_latest finds nothing (no version row, or no
\* content at that version), returns the consistency error: not not-found,
\* not an object.
C6_LiveWithoutContentIsError ==
    task[1].pc = "done" /\ task[1].op = "load_live" /\ NoFailure(1)
            /\ Live(task[1].object_id)
            /\ LatestContent(task[1].object_id) = {} =>
        /\ task[1].result = ConsistencyFailure
        /\ task[1].result # ROk(None)
        /\ task[1].result.kind = "err"

\* The version row exists and its content has been pruned.
C6_Witness ==
    /\ task[1].pc = "done"
    /\ task[1].op = "load_live"
    /\ Live(task[1].object_id)
    /\ obj_versions[task[1].object_id] # None
    /\ LatestContent(task[1].object_id) = {}
    /\ task[1].log = <<"info_issue", "info_done", "version_issue",
                       "version_done", "content_issue", "content_done">>
    /\ task[1].result = ConsistencyFailure

\* C10: a failed lookup is the last lookup of its call: nothing is issued
\* after it, the call ends in an error (never not-found, never an object), and
\* no lookup is issued twice.
C10_FailurePropagates ==
    /\ \A i \in 1..Len(task[1].log) :
          task[1].log[i] \in Failures =>
              /\ i = Len(task[1].log)
              /\ task[1].pc \in {"live_resume", "done"}
              /\ task[1].pc = "done" =>
                    /\ task[1].result.kind = "err"
                    /\ task[1].result.val = None
    /\ \A e \in {"info_issue", "version_issue", "content_issue"} :
          Cardinality(Positions(1, e)) <= 1

C10_Witness ==
    /\ task[1].pc = "done"
    /\ task[1].op = "load_live"
    /\ task[1].log = <<"info_issue", "info_done", "version_issue",
                       "version_done", "content_issue", "content_fail">>
    /\ task[1].result = RErr("Failed to load latest object")

\* ------------------------------------------------- typed decoder properties
NotFoundError == RErr("No data found")
NotMoveError == RErr("Not a Move object")
DecodeError == RErr("Failed to deserialize Move value")

\* The one object load_latest resolves for id, when there is one.
TheLatest(id) == CHOOSE o \in LatestContent(id) : TRUE

\* C11: when no lookup fails and the latest object of the id is a package,
\* load_latest_deserialized fails with "Not a Move object": it does not fail
\* with the decode error, does not attempt to decode and does not succeed.
C11_PackageIsNotMove ==
    task[1].pc = "done" /\ task[1].op = "load_latest_deserialized"
            /\ NoFailure(1) /\ LatestContent(task[1].object_id) # {}
            /\ TheLatest(task[1].object_id).data.kind = "package" =>
        /\ task[1].result = NotMoveError
        /\ task[1].result # DecodeError
        /\ task[1].result.kind # "ok"
        /\ Positions(1, "decode") = {}

\* The package is the latest of two stored versions; the other is a Move object.
C11_Witness ==
    /\ task[1].pc = "done"
    /\ task[1].op = "load_latest_deserialized"
    /\ LatestContent(task[1].object_id) # {}
    /\ TheLatest(task[1].object_id).data.kind = "package"
    /\ \E o \in bigtable : o.id = task[1].object_id /\ o.data.kind = "move"
    /\ task[1].result = NotMoveError

\* C12: every load_latest_deserialized ends in exactly one outcome, decided in
\* this order: a failed lookup => that lookup's error; nothing found => "No
\* data found" (an error, not an absent value); a package => "Not a Move
\* object"; contents that do not decode => "Failed to deserialize Move value";
\* otherwise the decoded value.  The three errors are different values.
C12_DecoderOutcomes ==
    /\ Cardinality({ NotFoundError, NotMoveError, DecodeError }) = 3
    /\ task[1].pc = "done" /\ task[1].op = "load_latest_deserialized" =>
        LET id == task[1].object_id
            r == task[1].result
        IN IF ~NoFailure(1)
           THEN r \in { RErr("Failed to load latest version"),
                        RErr("Failed to load latest object") }
           ELSE IF LatestContent(id) = {} THEN r = NotFoundError
           ELSE IF TheLatest(id).data.kind # "move" THEN r = NotMoveError
           ELSE IF ~( /\ Len(TheLatest(id).data.contents) = 2
                      /\ TheLatest(id).data.contents[2] \in {0, 1} )
           THEN r = DecodeError
           ELSE /\ r.kind = "ok"
                /\ r.val # None
                /\ r.val[1].value = TheLatest(id).data.contents[1]
                /\ r.val[1].flag = (TheLatest(id).data.contents[2] = 1)

\* Contents whose second byte is not a bool, at the highest version.
C12_Witness ==
    /\ task[1].pc = "done"
    /\ task[1].op = "load_latest_deserialized"
    /\ NoFailure(1)
    /\ LatestContent(task[1].object_id) # {}
    /\ TheLatest(task[1].object_id).data = MoveData(<<7, 2>>)
    /\ TheLatest(task[1].object_id).version.value >= Pow2(Width - 1)
    /\ task[1].result = DecodeError
====
